---- MODULE Spec2Model ----
(***************************************************************************)
(* depup: annotation-directed version substitution.                        *)
(*                                                                         *)
(* A Go string is modelled as a sequence of one-character strings, so the  *)
(* regular expressions of the updaters are operators over sequences that   *)
(* follow Go's regexp semantics (leftmost match, greedy/lazy preference).  *)
(* A file is its byte content, line terminators included.                  *)
(***************************************************************************)
EXTENDS Integers, Sequences, FiniteSets, TLC

VARIABLES name, disk, packages, hist, procs

vars == <<name, disk, packages, hist, procs>>

(***************************************************************************)
(* Character classes of Go's regexp syntax.                                *)
(***************************************************************************)
Digit == {"0", "1", "2", "3", "4", "5", "6", "7", "8", "9"}

NonZeroDigit == Digit \ {"0"}

Letter ==
    {"a", "b", "c", "d", "e", "f", "g", "h", "i", "j", "k", "l", "m",
     "n", "o", "p", "q", "r", "s", "t", "u", "v", "w", "x", "y", "z",
     "A", "B", "C", "D", "E", "F", "G", "H", "I", "J", "K", "L", "M",
     "N", "O", "P", "Q", "R", "S", "T", "U", "V", "W", "X", "Y", "Z"}

\* \s
Space == {" ", "\t", "\n", "\r"}

\* ["']
Quote == {"\"", "'"}

\* [0-9A-Za-z.-]
IdentChar == Digit \cup Letter \cup {".", "-"}

\* [>=~<^]
OperatorChar == {">", "=", "~", "<", "^"}

(***************************************************************************)
(* String helpers.                                                         *)
(***************************************************************************)
\* the character at index i, or "" past either end
At(s, i) == IF i \in 1..Len(s) THEN s[i] ELSE ""

\* s[i..] (Go slice s[i-1:])
From(s, i) == SubSeq(s, i, Len(s))

\* the index just after the longest run of characters of class C starting at i
RECURSIVE RunEnd(_, _, _)
RunEnd(s, i, C) ==
    IF i > Len(s) \/ s[i] \notin C THEN i ELSE RunEnd(s, i + 1, C)

\* the index just after the longest run of characters outside C starting at i
RECURSIVE RunEndNot(_, _, _)
RunEndNot(s, i, C) ==
    IF i > Len(s) \/ s[i] \in C THEN i ELSE RunEndNot(s, i + 1, C)

\* does the literal lit occur in s at index i
HasAt(s, i, lit) ==
    /\ i >= 1
    /\ i + Len(lit) - 1 <= Len(s)
    /\ SubSeq(s, i, i + Len(lit) - 1) = lit

\* the first index at or after i where lit occurs in s; 0 when there is none
RECURSIVE IndexFrom(_, _, _)
IndexFrom(s, i, lit) ==
    IF i + Len(lit) - 1 > Len(s) THEN 0
    ELSE IF HasAt(s, i, lit) THEN i
    ELSE IndexFrom(s, i + 1, lit)

\* strings.Index, 1-based; 0 when absent
IndexOf(s, lit) == IndexFrom(s, 1, lit)

Contains(s, lit) == IndexOf(s, lit) # 0

\* s with the occurrence of old at index i replaced by new; s when i = 0
ReplaceAt(s, i, old, new) ==
    IF i = 0 THEN s
    ELSE SubSeq(s, 1, i - 1) \o new \o From(s, i + Len(old))

\* strings.Replace(s, old, new, 1)
ReplaceFirst(s, old, new) == ReplaceAt(s, IndexOf(s, old), old, new)

(***************************************************************************)
(* VersionPattern: the version matcher of the YAML and HCL updaters         *)
(*   (["']?)(\d+\.\d+\.\d+(?:-[0-9A-Za-z.-]+)?(?:\+[0-9A-Za-z.-]+)?)(["']?)  *)
(***************************************************************************)
\* \d+\.\d+\.\d+ at i: the index just after it, 0 when it does not match
LooseCoreEnd(s, i) ==
    LET a == RunEnd(s, i, Digit) IN
    IF a = i \/ At(s, a) # "." THEN 0
    ELSE LET b == RunEnd(s, a + 1, Digit) IN
         IF b = a + 1 \/ At(s, b) # "." THEN 0
         ELSE LET c == RunEnd(s, b + 1, Digit) IN
              IF c = b + 1 THEN 0 ELSE c

\* (?:<lead>[0-9A-Za-z.-]+)? at i, greedy: the index just after it
OptSuffixEnd(s, i, lead) ==
    IF At(s, i) = lead /\ RunEnd(s, i + 1, IdentChar) > i + 1
    THEN RunEnd(s, i + 1, IdentChar)
    ELSE i

\* the end of group 2 when its \d+\.\d+\.\d+ ends just before index c
LooseVersionEnd(s, c) == OptSuffixEnd(s, OptSuffixEnd(s, c, "-"), "+")

\* where group 2 starts for a match that starts at p (the greedy ["']? is
\* tried first), 0 when no match starts at p
LooseVersionStart(s, p) ==
    IF At(s, p) \in Quote /\ LooseCoreEnd(s, p + 1) # 0 THEN p + 1
    ELSE IF LooseCoreEnd(s, p) # 0 THEN p
    ELSE 0

NoMatch == [found |-> FALSE]

\* the leftmost index at or after p where a match starts; 0 when none does
RECURSIVE LooseMatchFrom(_, _)
LooseMatchFrom(s, p) ==
    IF p > Len(s) THEN 0
    ELSE IF LooseVersionStart(s, p) # 0 THEN p
    ELSE LooseMatchFrom(s, p + 1)

\* m[0..3] of the match that starts at p, its group 2 reaching from vs up to
\* ve - 1; the greedy closing ["']? takes the quote at ve when there is one
Submatch(s, p, vs, ve) ==
    [found |-> TRUE,
     m0 |-> SubSeq(s, p, IF At(s, ve) \in Quote THEN ve ELSE ve - 1),
     m1 |-> SubSeq(s, p, vs - 1),
     m2 |-> SubSeq(s, vs, ve - 1),
     m3 |-> SubSeq(s, ve, IF At(s, ve) \in Quote THEN ve ELSE ve - 1)]

\* the match that starts at p with group 2 starting at vs
SubmatchFrom(s, p, vs) == Submatch(s, p, vs, LooseVersionEnd(s, LooseCoreEnd(s, vs)))

\* the match that starts at p; no match when p = 0
SubmatchAt(s, p) ==
    IF p = 0 THEN NoMatch ELSE SubmatchFrom(s, p, LooseVersionStart(s, p))

\* VersionPattern.FindStringSubmatch(s): m[0..3] of the leftmost match
VersionPatternFind(s) == SubmatchAt(s, LooseMatchFrom(s, 1))

(***************************************************************************)
(* versionPattern: the strict matcher of the dotenv updater and of          *)
(* Package.Validate; MAJOR, MINOR and PATCH are 0|[1-9]\d*.  It is not       *)
(* anchored, and everything after PATCH is optional.                        *)
(***************************************************************************)
\* one numeric component (0, or a non-zero digit and more digits) and the dot
\* after it, at i: the index just after the dot, 0 when it does not match
StrictCompDotEnd(s, i) ==
    IF At(s, i) = "0" THEN (IF At(s, i + 1) = "." THEN i + 2 ELSE 0)
    ELSE IF At(s, i) \in NonZeroDigit
         THEN LET a == RunEnd(s, i, Digit) IN
              IF At(s, a) = "." THEN a + 1 ELSE 0
         ELSE 0

StrictCoreAt(s, i) ==
    LET a == StrictCompDotEnd(s, i) IN
    /\ a # 0
    /\ LET b == StrictCompDotEnd(s, a) IN
       /\ b # 0
       /\ At(s, b) \in Digit

\* versionPattern.MatchString(s)
versionPatternMatchString(s) == \E p \in 1..Len(s) : StrictCoreAt(s, p)

(***************************************************************************)
(* The annotation patterns                                                 *)
(*   #\s*depup\s+package=([^\s]+)    //\s*depup\s+package=([^\s]+)           *)
(***************************************************************************)
Hash == <<"#">>

Slashes == <<"/", "/">>

depupWord == <<"d", "e", "p", "u", "p">>

packageKey == <<"p", "a", "c", "k", "a", "g", "e", "=">>

\* ([^\s]+) at n: n when the group is not empty, else 0
AfterPackageKey(s, n) == IF RunEndNot(s, n, Space) = n THEN 0 ELSE n

\* \s+package=([^\s]+) at w, the whitespace ending just before k
AfterDepupWord(s, w, k) ==
    IF k = w \/ ~HasAt(s, k, packageKey) THEN 0
    ELSE AfterPackageKey(s, k + Len(packageKey))

\* depup\s+package=([^\s]+) at d
AfterCommentStart(s, d) ==
    IF ~HasAt(s, d, depupWord) THEN 0
    ELSE AfterDepupWord(s, d + Len(depupWord), RunEnd(s, d + Len(depupWord), Space))

\* the annotation pattern with \s+ in place of \s* after the comment start
AnnotationNameStartAfterSpace(s, p, start) ==
    IF ~HasAt(s, p, start) \/ RunEnd(s, p + Len(start), Space) = p + Len(start)
    THEN 0
    ELSE AfterCommentStart(s, RunEnd(s, p + Len(start), Space))

\* a match of <start>\s*depup\s+package=([^\s]+) that starts at p: the index
\* of the first character of group 1, 0 when no match starts at p
AnnotationNameStart(s, p, start) ==
    IF ~HasAt(s, p, start) THEN 0
    ELSE AfterCommentStart(s, RunEnd(s, p + Len(start), Space))

\* the leftmost index at or after p where a match starts; 0 when none does
RECURSIVE AnnotationFrom(_, _, _)
AnnotationFrom(s, p, start) ==
    IF p > Len(s) THEN 0
    ELSE IF AnnotationNameStart(s, p, start) # 0 THEN p
    ELSE AnnotationFrom(s, p + 1, start)

\* group 1 when it starts at n
NameFrom(s, n) == SubSeq(s, n, RunEndNot(s, n, Space) - 1)

\* group 1 of the match that starts at p; << >> when p = 0
NameAt(s, p, start) ==
    IF p = 0 THEN << >> ELSE NameFrom(s, AnnotationNameStart(s, p, start))

\* pattern.FindStringSubmatch(s)[1] of the leftmost match; << >> when the
\* pattern does not match
commentPattern(s, start) == NameAt(s, AnnotationFrom(s, 1, start), start)

(***************************************************************************)
(* The inline comment patterns: a lazy group 1 (any characters), then      *)
(* group 2: optional whitespace, the comment start ("#" or "//") and the   *)
(* rest of the line.  The lazy group 1 is the shortest prefix after which  *)
(* only whitespace separates the comment start.                            *)
(***************************************************************************)
\* the least index at or after p from where whitespace and then the comment
\* start follow; 0 when there is none
RECURSIVE CommentFrom(_, _, _)
CommentFrom(s, p, start) ==
    IF p > Len(s) THEN 0
    ELSE IF HasAt(s, RunEnd(s, p, Space), start) THEN p
    ELSE CommentFrom(s, p + 1, start)

\* the index where group 2 starts, 0 when the pattern does not match
inlineCommentRegex(s, start) == CommentFrom(s, 1, start)

(***************************************************************************)
(* Packages.                                                               *)
(***************************************************************************)
Pkg(n, v) == [Name |-> n, Version |-> v]

\* for _, pkg := range packages { if pkg.Name == packageName {...} }: the
\* index of the first package with that name at or after i, 0 when none
RECURSIVE NamedFrom(_, _, _)
NamedFrom(pkgs, packageName, i) ==
    IF i > Len(pkgs) THEN 0
    ELSE IF pkgs[i].Name = packageName THEN i
    ELSE NamedFrom(pkgs, packageName, i + 1)

FirstNamed(pkgs, packageName) == NamedFrom(pkgs, packageName, 1)

Same(line) == [line |-> line, updated |-> FALSE]

Updated(line) == [line |-> line, updated |-> TRUE]

\* the first of two results that is an update, else the second
FirstUpdated(x, y) == IF x.updated THEN x ELSE y

(***************************************************************************)
(* YamlFileUpdater / HclFileUpdater: updateVersion (the two are the same).  *)
(***************************************************************************)
\* regexp [>=~<^]+\s* replaced by "" everywhere
RECURSIVE cleanVersion(_)
cleanVersion(v) ==
    IF v = << >> THEN << >>
    ELSE IF v[1] \in OperatorChar
         THEN cleanVersion(From(v, RunEnd(v, RunEnd(v, 1, OperatorChar), Space)))
         ELSE <<v[1]>> \o cleanVersion(Tail(v))

\* the body of the loop of updateVersion for the package with that version
updateVersionTo(line, m, version) ==
    IF cleanVersion(m.m2) = version THEN Same(line)
    ELSE Updated(ReplaceFirst(line, m.m0, m.m1 \o version \o m.m3))

\* updateVersion when the first package of that name is pkgs[i], none if i = 0
updateVersionAt(line, pkgs, m, i) ==
    IF i = 0 THEN Same(line) ELSE updateVersionTo(line, m, pkgs[i].Version)

\* updateVersion that strips the constraint operators of the line it rewrites
updateVersionRemovingConstraints(line, packageName, pkgs, m) ==
    updateVersionAt(cleanVersion(line), pkgs, m, FirstNamed(pkgs, packageName))

updateVersion(line, packageName, pkgs, m) ==
    updateVersionAt(line, pkgs, m, FirstNamed(pkgs, packageName))

\* the end of processInlineDepupComment: the comment is put back after the
\* updated content
WithComment(line, comment, r) ==
    IF r.updated THEN Updated(r.line \o comment) ELSE Same(line)

\* processInlineDepupComment from the version match on
InlineVersion(line, lineContent, comment, packageName, pkgs, m) ==
    IF ~m.found THEN Same(line)
    ELSE WithComment(line, comment, updateVersion(lineContent, packageName, pkgs, m))

\* processInlineDepupComment from the annotation match on
InlinePackage(line, lineContent, comment, packageName, pkgs) ==
    IF packageName = << >> THEN Same(line)
    ELSE InlineVersion(line, lineContent, comment, packageName, pkgs,
                       VersionPatternFind(lineContent))

\* processPreviousLineDepupComment from the version match on
PreviousVersion(currentLine, packageName, pkgs, m) ==
    IF ~m.found THEN Same(currentLine)
    ELSE updateVersion(currentLine, packageName, pkgs, m)

\* processPreviousLineDepupComment from the annotation match on
PreviousPackage(currentLine, packageName, pkgs) ==
    IF packageName = << >> THEN Same(currentLine)
    ELSE PreviousVersion(currentLine, packageName, pkgs, VersionPatternFind(currentLine))

(***************************************************************************)
(* YamlFileUpdater.                                                        *)
(***************************************************************************)
\* processInlineDepupComment when group 2 of inlineCommentRegex starts at c
YamlInlineAt(line, pkgs, c) ==
    IF c = 0 THEN Same(line)
    ELSE InlinePackage(line, SubSeq(line, 1, c - 1), From(line, c),
                       commentPattern(From(line, c), Hash), pkgs)

YamlProcessInlineDepupComment(line, pkgs) ==
    YamlInlineAt(line, pkgs, inlineCommentRegex(line, Hash))

YamlProcessPreviousLineDepupComment(prevLine, currentLine, pkgs) ==
    PreviousPackage(currentLine, commentPattern(prevLine, Hash), pkgs)

(***************************************************************************)
(* HclFileUpdater.                                                         *)
(***************************************************************************)
\* the first of two submatches that is not empty
FirstMatch(x, y) == IF x # << >> THEN x ELSE y

\* commentPatterns tried in order, the first match wins; << >> when none
HclPackageName(s) == FirstMatch(commentPattern(s, Hash), commentPattern(s, Slashes))

\* one round of the loop when group 2 of the inline regex starts at c
HclInlineAt(line, pkgs, c) ==
    IF c = 0 THEN Same(line)
    ELSE InlinePackage(line, SubSeq(line, 1, c - 1), From(line, c),
                       HclPackageName(From(line, c)), pkgs)

\* one round of the loop over inlineCommentRegexes
HclInlineWith(line, pkgs, start) ==
    HclInlineAt(line, pkgs, inlineCommentRegex(line, start))

HclProcessInlineDepupComment(line, pkgs) ==
    FirstUpdated(HclInlineWith(line, pkgs, Hash), HclInlineWith(line, pkgs, Slashes))

HclProcessPreviousLineDepupComment(prevLine, currentLine, pkgs) ==
    PreviousPackage(currentLine, HclPackageName(prevLine), pkgs)

(***************************************************************************)
(* DotEnvFileUpdater.                                                      *)
(***************************************************************************)
\* strings.TrimSpace(line) == "" || strings.TrimSpace(line)[0] == '#'
BlankOrComment(line) == At(line, RunEnd(line, 1, Space)) \in {"", "#"}

\* keyValueRegex: at least one character other than "=", then the first "=",
\* then the rest; the index of that "=", 0 when the pattern does not match
keyValueRegex(s) == IF IndexOf(s, <<"=">>) <= 1 THEN 0 ELSE IndexOf(s, <<"=">>)

\* quotedValueRegex with the opening quote at a and the next quote at b
QuotedTo(a, b, n) ==
    IF b > n THEN NoMatch ELSE [found |-> TRUE, open |-> a, close |-> b]

\* quotedValueRegex with the leading whitespace ending just before a
QuotedAt(value, a) ==
    IF At(value, a) \notin Quote THEN NoMatch
    ELSE QuotedTo(a, RunEndNot(value, a + 1, Quote), Len(value))

\* quotedValueRegex: whitespace, a quote, lazily up to the next quote, the
\* rest; the indexes of the two quotes, or found = FALSE
quotedValueRegex(value) == QuotedAt(value, RunEnd(value, 1, Space))

\* the end of either branch of updateEnvValue: value is before, currentValue
\* and after
ReplaceEnvValue(value, before, currentValue, after, version) ==
    IF ~versionPatternMatchString(currentValue) THEN Same(value)
    ELSE IF currentValue = version THEN Same(value)
    ELSE Updated(before \o version \o after)

\* spaceAndVersionRegex: whitespace up to a, a run of non-whitespace up to b,
\* the rest
EnvUnquoted(value, version, a, b) ==
    IF b = a THEN Same(value)
    ELSE ReplaceEnvValue(value, SubSeq(value, 1, a - 1), SubSeq(value, a, b - 1),
                         From(value, b), version)

\* the two branches of updateEnvValue; q is the match of quotedValueRegex
EnvValueWith(value, version, q) ==
    IF q.found
    THEN ReplaceEnvValue(value, SubSeq(value, 1, q.open),
                         SubSeq(value, q.open + 1, q.close - 1),
                         From(value, q.close), version)
    ELSE EnvUnquoted(value, version, RunEnd(value, 1, Space),
                     RunEndNot(value, RunEnd(value, 1, Space), Space))

\* updateEnvValue when the first package of that name is pkgs[i]
EnvValueAt(value, pkgs, i) ==
    IF i = 0 THEN Same(value)
    ELSE EnvValueWith(value, pkgs[i].Version, quotedValueRegex(value))

\* the version inside the value replaced, what surrounds it kept
ReplaceVersionInValue(value, version, m) ==
    IF ~m.found \/ m.m2 = version THEN Same(value)
    ELSE Updated(ReplaceFirst(value, m.m2, version))

\* updateEnvValue that replaces the version inside the value and keeps what
\* surrounds it
updateEnvValueKeepingPrefix(value, packageName, pkgs) ==
    IF FirstNamed(pkgs, packageName) = 0 THEN Same(value)
    ELSE ReplaceVersionInValue(value, pkgs[FirstNamed(pkgs, packageName)].Version,
                               VersionPatternFind(value))

updateEnvValue(value, packageName, pkgs) ==
    EnvValueAt(value, pkgs, FirstNamed(pkgs, packageName))

\* the line put together again: key, "=", the new value and the comment
EnvWithKey(line, key, comment, r) ==
    IF r.updated THEN Updated(key \o <<"=">> \o r.line \o comment) ELSE Same(line)

\* from the match of keyValueRegex on; e is the index of "="
EnvKeyValue(line, lineContent, comment, packageName, pkgs, e) ==
    IF e = 0 THEN Same(line)
    ELSE EnvWithKey(line, SubSeq(lineContent, 1, e - 1), comment,
                    updateEnvValue(From(lineContent, e + 1), packageName, pkgs))

\* from the annotation match on
EnvPackage(line, lineContent, comment, packageName, pkgs) ==
    IF packageName = << >> THEN Same(line)
    ELSE EnvKeyValue(line, lineContent, comment, packageName, pkgs,
                     keyValueRegex(lineContent))

\* processInlineDepupComment when group 2 of inlineCommentRegex starts at c
DotEnvInlineAt(line, pkgs, c) ==
    IF c = 0 THEN Same(line)
    ELSE EnvPackage(line, SubSeq(line, 1, c - 1), From(line, c),
                    commentPattern(From(line, c), Hash), pkgs)

DotEnvProcessInlineDepupComment(line, pkgs) ==
    IF BlankOrComment(line) THEN Same(line)
    ELSE DotEnvInlineAt(line, pkgs, inlineCommentRegex(line, Hash))

DotEnvProcessPreviousLineDepupComment(prevLine, currentLine, pkgs) ==
    IF BlankOrComment(currentLine) THEN Same(currentLine)
    ELSE EnvPackage(currentLine, currentLine, << >>,
                    commentPattern(prevLine, Hash), pkgs)

(***************************************************************************)
(* The file driver, the same in the three updaters.                        *)
(***************************************************************************)
processInlineDepupComment(d, line, pkgs) ==
    CASE d = "yaml"   -> YamlProcessInlineDepupComment(line, pkgs)
      [] d = "hcl"    -> HclProcessInlineDepupComment(line, pkgs)
      [] d = "dotenv" -> DotEnvProcessInlineDepupComment(line, pkgs)

processPreviousLineDepupComment(d, prevLine, currentLine, pkgs) ==
    CASE d = "yaml"   -> YamlProcessPreviousLineDepupComment(prevLine, currentLine, pkgs)
      [] d = "hcl"    -> HclProcessPreviousLineDepupComment(prevLine, currentLine, pkgs)
      [] d = "dotenv" -> DotEnvProcessPreviousLineDepupComment(prevLine, currentLine, pkgs)

\* bufio.ScanLines drops one trailing carriage return of a line
dropCR(l) ==
    IF Len(l) > 0 /\ l[Len(l)] = "\r" THEN SubSeq(l, 1, Len(l) - 1) ELSE l

\* the lines bufio.Scanner yields for the content
RECURSIVE ScanLines(_)
ScanLines(data) ==
    IF data = << >> THEN << >>
    ELSE LET i == IndexOf(data, <<"\n">>) IN
         IF i = 0 THEN <<dropCR(data)>>
         ELSE <<dropCR(SubSeq(data, 1, i - 1))>> \o ScanLines(From(data, i + 1))

\* readFileContent taking every file to end with a line feed
readFileContentEndingWithNewline(content) ==
    [lines |-> ScanLines(content), endsWithNewline |-> TRUE]

\* readFileContent of a readable file
readFileContent(content) ==
    [lines |-> ScanLines(content),
     endsWithNewline |-> Len(content) > 0 /\ content[Len(content)] = "\n"]

\* the body of the loop with a preceding-line annotation that is also looked
\* for two lines back
processLineLookingBack(d, lines, i, pkgs) ==
    FirstUpdated(processInlineDepupComment(d, lines[i], pkgs),
                 FirstUpdated(IF i > 1
                              THEN processPreviousLineDepupComment(d, lines[i - 1], lines[i], pkgs)
                              ELSE Same(lines[i]),
                              IF i > 2
                              THEN processPreviousLineDepupComment(d, lines[i - 2], lines[i], pkgs)
                              ELSE Same(lines[i])))

\* the body of the loop of processLines for line i: the inline annotation is
\* tried first, then the annotation of the line before
processLine(d, lines, i, pkgs) ==
    FirstUpdated(processInlineDepupComment(d, lines[i], pkgs),
                 IF i > 1
                 THEN processPreviousLineDepupComment(d, lines[i - 1], lines[i], pkgs)
                 ELSE Same(lines[i]))

\* what the loop makes of every line
ProcessedLines(d, lines, pkgs) ==
    [i \in DOMAIN lines |-> processLine(d, lines, i, pkgs)]

\* the output written for the processed lines i..len(lines)
RECURSIVE WriteLines(_, _, _)
WriteLines(rs, i, endsWithNewline) ==
    IF i > Len(rs) THEN << >>
    ELSE rs[i].line
         \o (IF i < Len(rs) \/ endsWithNewline THEN <<"\n">> ELSE << >>)
         \o WriteLines(rs, i + 1, endsWithNewline)

\* output.String() and updated once the loop has run
Output(rs, endsWithNewline) ==
    [content |-> WriteLines(rs, 1, endsWithNewline),
     updated |-> \E i \in DOMAIN rs : rs[i].updated]

processLines(d, lines, pkgs, endsWithNewline) ==
    Output(ProcessedLines(d, lines, pkgs), endsWithNewline)

\* the write guard without the DryRun test
ShouldWriteIgnoringDryRun(updated, dryRun) == updated

\* the write guard with the updated test dropped
ShouldWriteWheneverNotDryRun(updated, dryRun) == ~dryRun

\* if updated && !options.DryRun
ShouldWrite(updated, dryRun) == updated /\ ~dryRun

\* a read failure of an UpdateFile that opened the file for writing first
ReadFailedAfterTruncation(content, dryRun) ==
    [content |-> << >>, changed |-> FALSE, err |-> "read",
     after |-> << >>, writes |-> 1, dryRun |-> dryRun]

\* UpdateFile when readFileContent failed
ReadFailed(content, dryRun) ==
    [content |-> << >>, changed |-> FALSE, err |-> "read",
     after |-> content, writes |-> 0, dryRun |-> dryRun]

\* UpdateFile from the write guard on; r is what processLines returned.  io
\* tells how os.WriteFile ends: "ok", "open" (it fails before it truncates the
\* file) or "write" (it fails after)
WriteBack(content, dryRun, io, r) ==
    IF ShouldWrite(r.updated, dryRun)
    THEN IF io = "ok"
         THEN [content |-> r.content, changed |-> r.updated, err |-> "none",
               after |-> r.content, writes |-> 1, dryRun |-> dryRun]
         ELSE [content |-> << >>, changed |-> FALSE, err |-> "write",
               after |-> IF io = "open" THEN content ELSE << >>,
               writes |-> 1, dryRun |-> dryRun]
    ELSE [content |-> r.content, changed |-> r.updated, err |-> "none",
          after |-> content, writes |-> 0, dryRun |-> dryRun]

\* processLines on what readFileContent returned
ProcessContent(d, pkgs, f) == processLines(d, f.lines, pkgs, f.endsWithNewline)

\* UpdateFile with a dry run that returns before it processes the lines
UpdateFileDryRunSkipsProcessing(d, content, pkgs, dryRun, io) ==
    IF io = "read" THEN ReadFailed(content, dryRun)
    ELSE IF dryRun
    THEN [content |-> content, changed |-> FALSE, err |-> "none",
          after |-> content, writes |-> 0, dryRun |-> dryRun]
    ELSE WriteBack(content, dryRun, io, ProcessContent(d, pkgs, readFileContent(content)))

\* UpdateFile on a file holding content; with io = "read" readFileContent
\* fails.  The result holds the returned content and changed flag, the error,
\* the content on disk after the call, the number of os.WriteFile calls and
\* the DryRun option the call was given.
UpdateFile(d, content, pkgs, dryRun, io) ==
    IF io = "read" THEN ReadFailed(content, dryRun)
    ELSE WriteBack(content, dryRun, io, ProcessContent(d, pkgs, readFileContent(content)))

(***************************************************************************)
(* File names and the updater of a file.                                   *)
(***************************************************************************)
\* filepath.Ext: the suffix that starts at the last dot of the last element
Ext(path) ==
    IF \E i \in 1..Len(path) :
           path[i] = "." /\ \A j \in i..Len(path) : path[j] # "/"
    THEN From(path, CHOOSE i \in 1..Len(path) :
                        /\ path[i] = "."
                        /\ \A j \in (i + 1)..Len(path) : path[j] \notin {".", "/"})
    ELSE << >>

YamlExtensions == {<<".", "y", "a", "m", "l">>, <<".", "y", "m", "l">>}

HclExtensions == {<<".", "h", "c", "l">>, <<".", "t", "f">>, <<".", "t", "f", "v", "a", "r", "s">>}

\* .env and the glob .env.*
DotEnvExtensions == {<<".", "e", "n", "v">>, <<".", "e", "n", "v", ".", "*">>}

\* filepath.Match for patterns of literal characters and "*", which matches
\* any run of characters other than the path separator
RECURSIVE Match(_, _)
Match(pattern, s) ==
    IF pattern = << >> THEN s = << >>
    ELSE IF pattern[1] = "*"
         THEN \/ Match(Tail(pattern), s)
              \/ s # << >> /\ s[1] # "/" /\ Match(pattern, Tail(s))
         ELSE s # << >> /\ s[1] = pattern[1] /\ Match(Tail(pattern), Tail(s))

\* strings.Contains(pattern, "*") || strings.Contains(pattern, "?")
IsGlob(pattern) == Contains(pattern, <<"*">>) \/ Contains(pattern, <<"?">>)

Supports(d, fileExtension) ==
    CASE d = "yaml"   -> fileExtension \in YamlExtensions
      [] d = "hcl"    -> fileExtension \in HclExtensions
      [] d = "dotenv" ->
             \/ fileExtension \in DotEnvExtensions
             \/ \E pattern \in DotEnvExtensions :
                    /\ IsGlob(pattern)
                    /\ \/ Match(pattern, fileExtension)
                       \/ Match(pattern, <<"f", "i", "l", "e">> \o fileExtension)

\* getFileUpdater: the first of the updaters of NewUpdater that supports the
\* extension, "none" when there is none
getFileUpdater(fileExtension) ==
    IF Supports("yaml", fileExtension) THEN "yaml"
    ELSE IF Supports("hcl", fileExtension) THEN "hcl"
    ELSE IF Supports("dotenv", fileExtension) THEN "dotenv"
    ELSE "none"

(***************************************************************************)
(* The inputs: file names, requested packages, file contents.              *)
(***************************************************************************)
\* f.yaml, f.tf, .env
Names == {<<"f", ".", "y", "a", "m", "l">>, <<"f", ".", "t", "f">>, <<".", "e", "n", "v">>}

a == <<"a">>

b == <<"b">>

V100 == <<"1", ".", "0", ".", "0">>

V200 == <<"2", ".", "0", ".", "0">>

\* the requested package lists: a=2.0.0 | a=1.0.0,b=2.0.0 | b=2.0.0 | A=2.0.0
PackageLists ==
    {<<Pkg(a, V200)>>,
     <<Pkg(a, V100), Pkg(b, V200)>>,
     <<Pkg(b, V200)>>,
     <<Pkg(<<"A">>, V200)>>}

\* what precedes the value on a value line: `v: `, `v = `, `K=`
Key(d) ==
    CASE d = "yaml"   -> <<"v", ":", " ">>
      [] d = "hcl"    -> <<"v", " ", "=", " ">>
      [] d = "dotenv" -> <<"K", "=">>

AnnotationA == <<"#", " ", "d", "e", "p", "u", "p", " ", "p", "a", "c", "k", "a", "g", "e", "=", "a">>

AnnotationB == <<"#", " ", "d", "e", "p", "u", "p", " ", "p", "a", "c", "k", "a", "g", "e", "=", "b">>

SlashAnnotationA == <<"/", "/", " ", "d", "e", "p", "u", "p", " ", "p", "a", "c", "k", "a", "g", "e", "=", "a">>

\* the annotation without a space after the comment start: #depup package=a
TightAnnotationA == <<"#", "d", "e", "p", "u", "p", " ", "p", "a", "c", "k", "a", "g", "e", "=", "a">>

PlainComment == <<"#", " ", "c">>

\* the lines that may precede a value line
HeadLines == {AnnotationA, AnnotationB, SlashAnnotationA, TightAnnotationA, PlainComment}

DQ == <<"\"">>

SQ == <<"'">>

\* what follows the key on a value line
ValueTexts ==
    {V100,                                    \* 1.0.0
     DQ \o V100 \o DQ,                        \* "1.0.0"
     SQ \o V100 \o SQ,                        \* '1.0.0'
     V100 \o <<" ">> \o AnnotationA,          \* 1.0.0 # depup package=a
     DQ \o V100 \o DQ \o <<" ">> \o SlashAnnotationA,
                                              \* "1.0.0" // depup package=a
     DQ \o <<">", "=">> \o V100 \o DQ,        \* ">=1.0.0"
     DQ \o <<">", "=", " ">> \o V100 \o DQ,   \* ">= 1.0.0"
     <<"0">> \o V100,                         \* 01.0.0
     <<"x">>,                                 \* x
     V100 \o <<"+", "b", "+", "c">>,          \* 1.0.0+b+c
     <<"-", "-", "v", "=">> \o DQ \o V100 \o DQ,
                                              \* --v="1.0.0"
     <<"x", " ", "#", " ">> \o V100}          \* x # 1.0.0

ValueLines(d) == {Key(d) \o t : t \in ValueTexts}

\* a file with an annotation of each comment start, each before a value line
BothStarts(d) == <<TightAnnotationA, Key(d) \o V100, SlashAnnotationA, Key(d) \o V100>>

\* a value line with an inline annotation, then a value line without
InlineThenValue(d) == <<Key(d) \o V100 \o <<" ">> \o AnnotationA, Key(d) \o V100>>

\* comment lines that hold a version and end in an annotation:
\* # 1.0.0 # depup package=a  and  # 1.0.0 // depup package=a
CommentLines ==
    {<<"#", " ">> \o V100 \o <<" ">> \o AnnotationA,
     <<"#", " ">> \o V100 \o <<" ">> \o SlashAnnotationA}

\* an annotation, then a comment line or a blank line, then a value line
Separated(d) == {<<AnnotationA, sep, Key(d) \o V100>> : sep \in {PlainComment, << >>}}

\* an annotation and a line whose key holds a version: K1.0.0=x
VersionInKey == <<AnnotationA, <<"K">> \o V100 \o <<"=", "x">>>>

\* the files: empty, one value line, a head line and a value line, the file
\* with both comment starts, and the files above
LineSeqs(d) ==
    {<< >>, BothStarts(d), InlineThenValue(d), VersionInKey}
        \cup {<<v>> : v \in ValueLines(d)}
        \cup {<<h, v>> : h \in HeadLines, v \in ValueLines(d)}
        \cup {<<c>> : c \in CommentLines}
        \cup Separated(d)

\* the files that are also taken with other line terminators
FewLineSeqs(d) ==
    {<< >>,
     <<Key(d) \o V100>>,
     <<Key(d) \o V100 \o <<" ">> \o AnnotationA>>,
     <<PlainComment, Key(d) \o V100>>,
     <<AnnotationA, Key(d) \o DQ \o V100 \o DQ>>}

\* the content of a file of these lines: with "lf" and "crlf" every line is
\* terminated, with "nofinal" the lines are separated by "\n" and the last
\* one is not terminated
RECURSIVE Render(_, _)
Render(ls, t) ==
    IF ls = << >> THEN << >>
    ELSE ls[1]
         \o (CASE t = "lf"      -> <<"\n">>
               [] t = "crlf"    -> <<"\r", "\n">>
               [] t = "nofinal" -> IF Len(ls) > 1 THEN <<"\n">> ELSE << >>)
         \o Render(Tail(ls), t)

Contents(d) ==
    {Render(ls, "lf") : ls \in LineSeqs(d)}
        \cup {Render(ls, t) : ls \in FewLineSeqs(d), t \in {"crlf", "nofinal"}}

(***************************************************************************)
(* The state: one file (name, disk), the requested packages, and hist, the *)
(* calls of UpdateFile made so far with what each was given and returned.  *)
(***************************************************************************)
MaxRuns == 2

Init ==
    /\ name \in Names
    /\ packages \in PackageLists
    /\ disk \in Contents(getFileUpdater(Ext(name)))
    /\ hist = << >>
    /\ procs = << >>

\* the record of a call of UpdateFile: the updater, the DryRun option it was
\* given, the content on disk before the call, and the outcome; via tells
\* whether the call was made directly or by Updater.Update, configured is the
\* dryRun field of that Updater (for a direct call, the option itself)
Call(d, r, via, configured) ==
    [dialect |-> d, dryRun |-> r.dryRun, before |-> disk,
     content |-> r.content, changed |-> r.changed, err |-> r.err,
     after |-> r.after, writes |-> r.writes, via |-> via,
     configured |-> configured]

\* the updater whose UpdateFile is called on the file
Updater == getFileUpdater(Ext(name))

\* would this call reach os.WriteFile
ReachesWrite(dryRun) == UpdateFile(Updater, disk, packages, dryRun, "ok").writes = 1

UpdateFileStep(dryRun, io, bound) ==
    /\ Len(hist) < bound
    /\ \E r \in {UpdateFile(Updater, disk, packages, dryRun, io)} :
           /\ disk' = r.after
           /\ hist' = Append(hist, Call(Updater, r, "direct", dryRun))
    /\ UNCHANGED <<name, packages, procs>>

\* UpdateFile with every call of the operating system succeeding
UpdateFileOk == \E dryRun \in BOOLEAN : UpdateFileStep(dryRun, "ok", MaxRuns)

Next == UpdateFileOk

Spec == Init /\ [][Next]_vars

(***************************************************************************)
(* Updater.Update on the file, or on the directory that holds it.          *)
(***************************************************************************)
Upper == <<"A", "B", "C", "D", "E", "F", "G", "H", "I", "J", "K", "L", "M",
           "N", "O", "P", "Q", "R", "S", "T", "U", "V", "W", "X", "Y", "Z">>

Lower == <<"a", "b", "c", "d", "e", "f", "g", "h", "i", "j", "k", "l", "m",
           "n", "o", "p", "q", "r", "s", "t", "u", "v", "w", "x", "y", "z">>

\* strings.ToLower
ToLower(s) ==
    [i \in DOMAIN s |->
        IF \E k \in DOMAIN Upper : Upper[k] = s[i]
        THEN Lower[CHOOSE k \in DOMAIN Upper : Upper[k] = s[i]]
        ELSE s[i]]

\* filepath.Base of a path without trailing separators
RECURSIVE Base(_)
Base(path) ==
    IF Contains(path, <<"/">>) THEN Base(From(path, IndexOf(path, <<"/">>) + 1))
    ELSE path

\* namePattern.MatchString: one or more letters, digits and hyphens
namePattern(s) ==
    /\ s # << >>
    /\ \A i \in DOMAIN s : s[i] \in Digit \cup Letter \cup {"-"}

\* Package.Validate returns nil
Validate(pkg) == versionPatternMatchString(pkg.Version) /\ namePattern(pkg.Name)

\* FileUpdaterOptions{DryRun: u.dryRun}
updaterOptions(dryRun) == [DryRun |-> dryRun]

isFileExtensionSupported(filePath, fileExtensions) ==
    \E pattern \in fileExtensions :
        \/ pattern = ToLower(Ext(filePath))
        \/ /\ (IsGlob(pattern) \/ Contains(pattern, <<"[">>))
           /\ Match(pattern, Base(filePath))

\* the extensions NewUpdater collects from its three updaters
AllExtensions == YamlExtensions \cup HclExtensions \cup DotEnvExtensions

\* the values of the file extension option
ExtensionLists == {AllExtensions, YamlExtensions}

\* what Update does without calling UpdateFile: why is "invalid", "stat",
\* "skipped" or "noupdater"
NoCall(why) ==
    [content |-> << >>, changed |-> FALSE, err |-> why, after |-> disk, writes |-> 0,
     dryRun |-> FALSE]

\* processFile: the outcome for the file
processFile(filePath, pkgs, options, fileExtensions) ==
    IF ~isFileExtensionSupported(filePath, fileExtensions) THEN NoCall("skipped")
    ELSE IF getFileUpdater(Ext(filePath)) = "none" THEN NoCall("noupdater")
    ELSE UpdateFile(getFileUpdater(Ext(filePath)), disk, pkgs, options.DryRun, "ok")

\* does Update hand the file to processFile: always for a file entrypoint;
\* for a directory, in the loop over os.ReadDir or in the walk, when the
\* extension of the file is one of fileExtensions.  With entry = "parent" the
\* file lies in a subdirectory of the entrypoint, where only the walk goes.
Visits(entry, recursive, fileExtensions) ==
    \/ entry = "file"
    \/ entry = "dir" /\ ~recursive /\ Ext(name) \in fileExtensions
    \/ entry = "dir" /\ recursive /\ Ext(name) \in fileExtensions
    \/ entry = "parent" /\ recursive /\ Ext(name) \in fileExtensions

\* Update without the loop that validates the packages
UpdateWithoutValidation(entry, pkgs, dryRun, recursive, fileExtensions) ==
    IF entry = "missing" THEN NoCall("stat")
    ELSE IF Visits(entry, recursive, fileExtensions)
    THEN processFile(name, pkgs, updaterOptions(dryRun), fileExtensions)
    ELSE NoCall("skipped")

\* Update(entrypoint, packages): entry is "file" (the file itself), "dir" (the
\* directory that holds it) or "missing" (a path that does not exist)
Update(entry, pkgs, dryRun, recursive, fileExtensions) ==
    IF \E k \in DOMAIN pkgs : ~Validate(pkgs[k]) THEN NoCall("invalid")
    ELSE IF entry = "missing" THEN NoCall("stat")
    ELSE IF Visits(entry, recursive, fileExtensions)
    THEN processFile(name, pkgs, updaterOptions(dryRun), fileExtensions)
    ELSE NoCall("skipped")

(***************************************************************************)
(* The second state machine: a few files, with UpdateFile failing to read  *)
(* or to write as well, and Updater.Update.                                *)
(***************************************************************************)
MaxCalls == 1

Invalid == <<"x">>

\* the requested package lists: a=2.0.0 | a=x | a=2.0.0,b=x | a=v2.0.0 |
\* a=02.0.0 | a=2.0.0 x | a_=2.0.0
PackageListsIO ==
    {<<Pkg(a, V200)>>,
     <<Pkg(a, Invalid)>>,
     <<Pkg(a, V200), Pkg(b, Invalid)>>,
     <<Pkg(a, <<"v">> \o V200)>>,
     <<Pkg(a, <<"0">> \o V200)>>,
     <<Pkg(a, V200 \o <<" ", "x">>)>>,
     <<Pkg(<<"a", "_">>, V200)>>}

InitIO ==
    /\ name \in Names
    /\ packages \in PackageListsIO
    /\ disk \in {Render(ls, "lf") : ls \in FewLineSeqs(getFileUpdater(Ext(name)))}
    /\ hist = << >>
    /\ procs = << >>

UpdateFileOkIO == \E dryRun \in BOOLEAN : UpdateFileStep(dryRun, "ok", MaxCalls)

\* os.Open or the scanner fails
UpdateFileReadError == \E dryRun \in BOOLEAN : UpdateFileStep(dryRun, "read", MaxCalls)

\* os.WriteFile fails, before it truncated the file ("open") or after ("write")
UpdateFileWriteError ==
    \E dryRun \in BOOLEAN, io \in {"open", "write"} :
        /\ ReachesWrite(dryRun)
        /\ UpdateFileStep(dryRun, io, MaxCalls)

UpdateStep ==
    \E entry \in {"file", "dir", "missing"}, dryRun \in BOOLEAN,
       recursive \in BOOLEAN, fileExtensions \in ExtensionLists :
        /\ Len(hist) < MaxCalls
        /\ \E r \in {Update(entry, packages, dryRun, recursive, fileExtensions)} :
               /\ disk' = r.after
               /\ hist' = Append(hist,
                      Call(IF r.err \in {"none", "read", "write"} THEN Updater ELSE "none",
                           r, "Update", dryRun))
        /\ UNCHANGED <<name, packages, procs>>

NextIO ==
    \/ UpdateFileOkIO
    \/ UpdateFileReadError
    \/ UpdateFileWriteError
    \/ UpdateStep

SpecIO == InitIO /\ [][NextIO]_vars

(***************************************************************************)
(* The third state machine: Updater.Update on files of every kind of       *)
(* name, given as the entrypoint, lying in the entrypoint directory or in  *)
(* a subdirectory of it; each call is recorded with its arguments.         *)
(***************************************************************************)
MaxUpdates == 1

\* f.yaml, f.tf, .env and f.yml, f.hcl, f.tfvars, .env.production, f.txt,
\* f.YAML
NamesTree ==
    Names \cup {<<"f", ".", "y", "m", "l">>,
                <<"f", ".", "h", "c", "l">>,
                <<"f", ".", "t", "f", "v", "a", "r", "s">>,
                <<".", "e", "n", "v", ".", "p", "r", "o", "d", "u", "c", "t", "i", "o", "n">>,
                <<"f", ".", "t", "x", "t">>,
                <<"f", ".", "Y", "A", "M", "L">>}

\* the dialect in which the content of a file of that name is written
ContentDialect(n) ==
    IF n[1] = "." THEN "dotenv"
    ELSE IF Ext(n) \in HclExtensions THEN "hcl"
    ELSE "yaml"

\* the files: a value line with an inline annotation, or without annotation
TreeLineSeqs(d) ==
    {<<Key(d) \o V100 \o <<" ">> \o AnnotationA>>, <<Key(d) \o V100>>}

\* the values of the file extension option: the default, .yaml and .yml, .txt
ExtensionListsTree == ExtensionLists \cup {{<<".", "t", "x", "t">>}}

InitTree ==
    /\ name \in NamesTree
    /\ packages \in {<<Pkg(a, V200)>>}
    /\ disk \in {Render(ls, "lf") : ls \in TreeLineSeqs(ContentDialect(name))}
    /\ hist = << >>
    /\ procs = << >>

\* the record of a call of Update: that of the call of UpdateFile it made, if
\* any, and the entrypoint and the options of the Updater
UpdateCall(r, entry, dryRun, recursive, fileExtensions) ==
    Call(IF r.err \in {"none", "read", "write"} THEN Updater ELSE "none",
         r, "Update", dryRun)
        @@ [entry |-> entry, recursive |-> recursive, fileExtensions |-> fileExtensions]

UpdateTree ==
    \E entry \in {"file", "dir", "parent", "missing"}, dryRun \in BOOLEAN,
       recursive \in BOOLEAN, fileExtensions \in ExtensionListsTree :
        /\ Len(hist) < MaxUpdates
        /\ \E r \in {Update(entry, packages, dryRun, recursive, fileExtensions)} :
               /\ disk' = r.after
               /\ hist' = Append(hist, UpdateCall(r, entry, dryRun, recursive, fileExtensions))
        /\ UNCHANGED <<name, packages, procs>>

NextTree == UpdateTree

SpecTree == InitTree /\ [][NextTree]_vars

(***************************************************************************)
(* The fourth state machine: UpdateFile invoked concurrently, one          *)
(* invocation per file.  Here name and disk are indexed by file, procs      *)
(* holds what each invocation has in its local variables, and hist the     *)
(* invocations that returned.  An invocation reads its file, processes the *)
(* lines, and writes when the guard says so; the steps of different        *)
(* invocations interleave.                                                 *)
(***************************************************************************)
NumProcs == 2

\* f.yaml and .env
NamesPar == {<<"f", ".", "y", "a", "m", "l">>, <<".", "e", "n", "v">>}

\* the file of an invocation: a value line with an inline annotation
ParLineSeqs(d) == {<<Key(d) \o V100 \o <<" ">> \o AnnotationA>>}

ContentsPar == UNION {{Render(ls, "lf") : ls \in ParLineSeqs(d)} : d \in {"yaml", "dotenv"}}

\* lines and outputContent before they are assigned
NoLines == [lines |-> << >>, endsWithNewline |-> FALSE]

NoOutput == [content |-> << >>, updated |-> FALSE]

InitPar ==
    /\ name \in [1..NumProcs -> NamesPar]
    /\ packages \in {<<Pkg(a, V200)>>}
    /\ disk \in {c \in [1..NumProcs -> ContentsPar] :
                    \A p \in 1..NumProcs :
                        c[p] \in {Render(ls, "lf") : ls \in ParLineSeqs(ContentDialect(name[p]))}}
    /\ hist = << >>
    /\ \E dryRun \in [1..NumProcs -> BOOLEAN] :
           procs = [p \in 1..NumProcs |->
                       [pc |-> "start", dryRun |-> dryRun[p], orig |-> disk[p],
                        f |-> NoLines, out |-> NoOutput]]

\* the filePath argument of a write that goes to the file of invocation 1
filePathShared(p) == 1

\* the filePath argument of invocation p: each invocation has its own file
filePath(p) == p

\* the updater invocation p is made on
UpdaterOf(p) == getFileUpdater(Ext(name[p]))

\* the record of invocation p when it returns outputContent, updated, nil;
\* inflight holds the invocations that have read their file and have not
\* returned at that moment
Return(p) ==
    [proc |-> p, dialect |-> UpdaterOf(p), dryRun |-> procs[p].dryRun,
     before |-> procs[p].orig, content |-> procs[p].out.content,
     changed |-> procs[p].out.updated, err |-> "none",
     inflight |-> {q \in 1..NumProcs \ {p} : procs[q].pc \in {"read", "write"}}]

\* readFileContent
ReadStep(p) ==
    /\ procs[p].pc = "start"
    /\ procs' = [procs EXCEPT ![p].pc = "read",
                              ![p].f = readFileContent(disk[filePath(p)])]
    /\ UNCHANGED <<name, disk, packages, hist>>

\* processLines and the write guard: the invocation goes on to write, or
\* returns
ProcessStep(p) ==
    /\ procs[p].pc = "read"
    /\ \E out \in {ProcessContent(UpdaterOf(p), packages, procs[p].f)} :
           IF ShouldWrite(out.updated, procs[p].dryRun)
           THEN /\ procs' = [procs EXCEPT ![p].pc = "write", ![p].out = out]
                /\ UNCHANGED hist
           ELSE /\ procs' = [procs EXCEPT ![p].pc = "done", ![p].out = out]
                /\ hist' = Append(hist, [Return(p) EXCEPT !.content = out.content,
                                                          !.changed = out.updated])
    /\ UNCHANGED <<name, disk, packages>>

\* os.WriteFile, then the return
WriteStep(p) ==
    /\ procs[p].pc = "write"
    /\ disk' = [disk EXCEPT ![filePath(p)] = procs[p].out.content]
    /\ procs' = [procs EXCEPT ![p].pc = "done"]
    /\ hist' = Append(hist, Return(p))
    /\ UNCHANGED <<name, packages>>

Read == \E p \in 1..NumProcs : ReadStep(p)

Process == \E p \in 1..NumProcs : ProcessStep(p)

Write == \E p \in 1..NumProcs : WriteStep(p)

NextPar == Read \/ Process \/ Write

SpecPar == InitPar /\ [][NextPar]_vars

(***************************************************************************)
(* What the claims speak of.                                               *)
(***************************************************************************)
\* the calls of UpdateFile that returned no error
Returned == {i \in DOMAIN hist : hist[i].err = "none"}

\* the lines of a call's input and of the content it returned
InLines(h) == ScanLines(h.before)

OutLines(h) == ScanLines(h.content)

\* C1: two UpdateFile calls in succession, neither a dry run, with the same
\* package list: the second returns changed=false and the content the first
\* returned.
C1_Idempotent ==
    \A i \in DOMAIN hist :
        (/\ i + 1 \in DOMAIN hist
         /\ {i, i + 1} \subseteq Returned
         /\ ~hist[i].dryRun
         /\ ~hist[i + 1].dryRun)
            => /\ ~hist[i + 1].changed
               /\ hist[i + 1].content = hist[i].content

\* C3: a dry run and a run that writes, started on the same content with the
\* same packages, return the same content and the same changed flag.
C3_DryRunEquivalence ==
    \A i, j \in Returned :
        (/\ hist[i].before = hist[j].before
         /\ hist[i].dryRun
         /\ ~hist[j].dryRun)
            => /\ hist[i].content = hist[j].content
               /\ hist[i].changed = hist[j].changed

\* a dry run that reported a change, then a run on the same content that
\* wrote it
C3_Witness ==
    \E i, j \in Returned :
        /\ hist[i].before = hist[j].before
        /\ hist[i].dryRun
        /\ ~hist[j].dryRun
        /\ hist[i].changed
        /\ hist[j].writes = 1
        /\ hist[j].after # hist[j].before

\* the content holds no annotation: the word depup does not occur in it
NoAnnotation(content) == ~Contains(content, depupWord)

\* C5: a file without annotation comes back as it was, with changed=false.
C5_NoOp ==
    \A i \in Returned :
        NoAnnotation(hist[i].before)
            => /\ hist[i].content = hist[i].before
               /\ ~hist[i].changed

\* the package names of the requested list
Listed(pkgs) == {pkgs[k].Name : k \in DOMAIN pkgs}

\* the comment starts of a dialect
CommentStarts(d) == IF d = "hcl" THEN {Hash, Slashes} ELSE {Hash}

\* the line carries a version token, then a trailing comment with an
\* annotation of that comment start
InlineAnnotated(line, start) ==
    /\ inlineCommentRegex(line, start) > 1
    /\ commentPattern(From(line, inlineCommentRegex(line, start)), start) # << >>
    /\ VersionPatternFind(SubSeq(line, 1, inlineCommentRegex(line, start) - 1)).found

\* the package name of the annotation that governs line i: the inline one when
\* the line has one, else the one of the line before; << >> when none
GoverningName(d, lines, i) ==
    IF \E start \in CommentStarts(d) : InlineAnnotated(lines[i], start)
    THEN LET start == CHOOSE t \in CommentStarts(d) : InlineAnnotated(lines[i], t)
         IN  commentPattern(From(lines[i], inlineCommentRegex(lines[i], start)), start)
    ELSE IF i > 1
         THEN (IF d = "hcl" THEN HclPackageName(lines[i - 1])
               ELSE commentPattern(lines[i - 1], Hash))
         ELSE << >>

\* the lines a call rewrote
Rewritten(h) == {i \in DOMAIN InLines(h) : OutLines(h)[i] # InLines(h)[i]}

\* C6: a line is rewritten only if its governing annotation names a package
\* of the requested list; a line governed by a package that is not listed
\* stays as it is.
C6_SelectiveUpdate ==
    \A n \in Returned :
        \A i \in DOMAIN InLines(hist[n]) :
            LET g == GoverningName(hist[n].dialect, InLines(hist[n]), i) IN
            /\ i \in Rewritten(hist[n]) => g \in Listed(packages)
            /\ (g # << >> /\ g \notin Listed(packages)) => i \notin Rewritten(hist[n])

\* the quote characters of a line, in order
QuotesOf(line) == SelectSeq(line, LAMBDA c : c \in Quote)

\* C7: in every dialect a rewritten line keeps its quote characters: none is
\* added, removed or exchanged for the other kind.
C7_QuotesPreserved ==
    \A n \in Returned :
        \A i \in Rewritten(hist[n]) :
            QuotesOf(OutLines(hist[n])[i]) = QuotesOf(InLines(hist[n])[i])

\* a version literal with a leading zero in a numeric component starts at p
LeadingZeroAt(line, p) ==
    /\ At(line, p) = "0"
    /\ At(line, p + 1) \in Digit
    /\ At(line, p - 1) \notin Digit
    /\ LooseCoreEnd(line, p) # 0

\* C8: a governed line whose version literal has a leading zero is left as it
\* is, in every dialect and for any requested version.
C8_MalformedVersionRejected ==
    \A n \in Returned :
        \A i \in DOMAIN InLines(hist[n]) :
            (/\ GoverningName(hist[n].dialect, InLines(hist[n]), i) \in Listed(packages)
             /\ \E p \in DOMAIN InLines(hist[n])[i] : LeadingZeroAt(InLines(hist[n])[i], p))
                => i \notin Rewritten(hist[n])

\* a constraint operator starts at p just inside a quote, and a version
\* follows it, with or without blanks in between
OperatorAt(line, p) ==
    /\ At(line, p) \in OperatorChar
    /\ At(line, p - 1) \in Quote
    /\ LooseCoreEnd(line, RunEnd(line, RunEnd(line, p, OperatorChar), {" "})) # 0

\* where the version after the operator at p starts and where it ends
OperandStart(line, p) == RunEnd(line, RunEnd(line, p, OperatorChar), {" "})

OperandEnd(line, p) == LooseVersionEnd(line, LooseCoreEnd(line, OperandStart(line, p)))

\* out is line with the version after the operator at p replaced, the operator
\* and the blanks after it kept
OperatorKept(line, out, p, pkgs) ==
    \E k \in DOMAIN pkgs :
        out = SubSeq(line, 1, OperandStart(line, p) - 1) \o pkgs[k].Version
                  \o From(line, OperandEnd(line, p))

\* out is line with the operator at p, the blanks after it and the version
\* replaced by the bare version
OperatorDropped(line, out, p, pkgs) ==
    \E k \in DOMAIN pkgs :
        out = SubSeq(line, 1, p - 1) \o pkgs[k].Version \o From(line, OperandEnd(line, p))

\* the rewritten lines of a call that carry an operator, with its position
RewrittenOperators(h) ==
    {<<i, p>> \in Rewritten(h) \X (1..Len(h.before)) : OperatorAt(InLines(h)[i], p)}

Calls == {n \in DOMAIN hist : hist[n].dialect # "none"}

\* C2: a call of UpdateFile with DryRun=true performs no write and leaves the
\* content on disk as it was, whatever it returns; and every call that an
\* Updater configured with dryRun=true makes is given DryRun=true.
C2_DryRunDoesNotWrite ==
    \A n \in Calls :
        /\ hist[n].dryRun => (hist[n].writes = 0 /\ hist[n].after = hist[n].before)
        /\ (hist[n].via = "Update" /\ hist[n].configured) => hist[n].dryRun

\* Update, configured with dryRun=true, made a call that returned changed=true
C2_Witness ==
    \E n \in Calls :
        /\ hist[n].via = "Update"
        /\ hist[n].configured
        /\ hist[n].dryRun
        /\ hist[n].err = "none"
        /\ hist[n].changed
        /\ hist[n].content # hist[n].before
        /\ hist[n].after = hist[n].before

\* C4: after UpdateFile with DryRun=false returned without error, the content
\* on disk is the returned content when changed=true; when changed=false no
\* write was performed and the content on disk is as before the call.
C4_WriteBack ==
    \A n \in Returned :
        ~hist[n].dryRun =>
            /\ hist[n].changed => hist[n].after = hist[n].content
            /\ ~hist[n].changed => (hist[n].writes = 0 /\ hist[n].after = hist[n].before)

\* a call that wrote new content, and a call that found nothing to change
C4_Witness ==
    /\ \E n \in Returned :
           /\ ~hist[n].dryRun
           /\ hist[n].changed
           /\ hist[n].writes = 1
           /\ hist[n].after # hist[n].before
    /\ \E n \in Returned :
           /\ ~hist[n].dryRun
           /\ ~hist[n].changed

\* the text of line i in which the version is searched: what precedes the
\* trailing comment when the line carries an inline annotation, else the line
SearchedText(d, line) ==
    IF \E start \in CommentStarts(d) : InlineAnnotated(line, start)
    THEN LET start == CHOOSE t \in CommentStarts(d) : InlineAnnotated(line, t)
         IN  SubSeq(line, 1, inlineCommentRegex(line, start) - 1)
    ELSE line

\* the requested version of the first package with that name
Requested(pkgs, packageName) == pkgs[FirstNamed(pkgs, packageName)].Version

\* line i is governed by a listed package and its first version token, which
\* never includes an operator, is the requested version of that package
EqualVersion(d, lines, i, pkgs) ==
    /\ GoverningName(d, lines, i) \in Listed(pkgs)
    /\ VersionPatternFind(SearchedText(d, lines[i])).found
    /\ VersionPatternFind(SearchedText(d, lines[i])).m2
           = Requested(pkgs, GoverningName(d, lines, i))

\* C11: a governed line whose current version, the operator before it set
\* aside, equals the requested version of its package is output unchanged.
C11_EqualVersionNoOp ==
    \A n \in Returned :
        \A i \in DOMAIN InLines(hist[n]) :
            EqualVersion(hist[n].dialect, InLines(hist[n]), i, packages)
                => i \notin Rewritten(hist[n])

\* the line with the first version token of its searched text, quotes
\* included, replaced by the same quotes around version
SubstitutedLine(d, line, version) ==
    LET s == SearchedText(d, line)
        m == VersionPatternFind(s)
    IN  ReplaceAt(line, LooseMatchFrom(s, 1), m.m0, m.m1 \o version \o m.m3)

\* C12: in every dialect a rewritten line is the input line with one span
\* replaced, the first version token of the searched text with its quotes, by
\* the same quotes around the requested version of the governing package;
\* all text before and after that span is as in the input.
C12_MinimalSubstitution ==
    \A n \in Returned :
        \A i \in Rewritten(hist[n]) :
            /\ VersionPatternFind(SearchedText(hist[n].dialect, InLines(hist[n])[i])).found
            /\ GoverningName(hist[n].dialect, InLines(hist[n]), i) \in Listed(packages)
            /\ OutLines(hist[n])[i]
                   = SubstitutedLine(hist[n].dialect, InLines(hist[n])[i],
                         Requested(packages, GoverningName(hist[n].dialect, InLines(hist[n]), i)))

\* the lines of a content as they are in the file: what stands between the
\* line feeds, a carriage return before the line feed included
RECURSIVE FileLines(_)
FileLines(data) ==
    IF data = << >> THEN << >>
    ELSE LET i == IndexOf(data, <<"\n">>) IN
         IF i = 0 THEN <<data>>
         ELSE <<SubSeq(data, 1, i - 1)>> \o FileLines(From(data, i + 1))

\* C13: whatever the line endings of the file, the returned content has as
\* many lines as the input, and every line that no annotation governs is the
\* input line at the same index, byte for byte.
C13_PassThrough ==
    \A n \in Returned :
        /\ Len(FileLines(hist[n].content)) = Len(FileLines(hist[n].before))
        /\ \A i \in DOMAIN FileLines(hist[n].before) :
               GoverningName(hist[n].dialect, InLines(hist[n]), i) = << >>
                   => FileLines(hist[n].content)[i] = FileLines(hist[n].before)[i]

\* the content ends with a line feed
EndsWithNewline(content) == Len(content) > 0 /\ content[Len(content)] = "\n"

AnnotationText(start, gap, packageName) ==
    start \o gap \o depupWord \o <<" ">> \o packageKey \o packageName

\* the whitespace taken between the comment start and depup
Gaps == {<< >>, <<" ">>}

\* the index where the trailing comment of the line starts, for the comment
\* start of the dialect that comes first; Len(line) + 1 when there is none
CommentIndex(d, line) ==
    LET at == {inlineCommentRegex(line, start) : start \in CommentStarts(d)} \ {0} IN
    IF at = {} THEN Len(line) + 1 ELSE CHOOSE c \in at : \A e \in at : c <= e

\* the part of the line in which the claim allows a rewrite: what precedes
\* the comment, and in a dotenv file what follows the first = as well
ValueFrom(d, line) == IF d = "dotenv" THEN IndexOf(line, <<"=">>) + 1 ELSE 1

\* the value of the line: what follows the key and precedes the comment
ValueOf(d, line) == SubSeq(line, ValueFrom(d, line), CommentIndex(d, line) - 1)

\* line i follows an annotation comment of that comment start for a listed
\* package, carries no inline annotation, and the version in its value is
\* not the requested one
AnnotatedBy(d, lines, i, start, pkgs) ==
    /\ i > 1
    /\ \E gap \in Gaps : \E k \in DOMAIN pkgs :
           /\ lines[i - 1] = AnnotationText(start, gap, pkgs[k].Name)
           /\ VersionPatternFind(ValueOf(d, lines[i])).found
           /\ VersionPatternFind(ValueOf(d, lines[i])).m2 # Requested(pkgs, pkgs[k].Name)
    /\ \A t \in CommentStarts(d) : ~InlineAnnotated(lines[i], t)

\* C15: an annotation comment is recognised with the comment start # in all
\* three dialects, with or without whitespace before depup, and with the
\* comment start // in the HCL dialect: the line after it is rewritten.  In
\* the YAML and dotenv dialects a line is rewritten only if it or the line
\* before it holds a #, so a // comment never causes a change.
C15_AnnotationGrammar ==
    \A n \in Returned :
        \A i \in DOMAIN InLines(hist[n]) :
            /\ (\E start \in CommentStarts(hist[n].dialect) :
                    AnnotatedBy(hist[n].dialect, InLines(hist[n]), i, start, packages))
                   => (i \in Rewritten(hist[n]) /\ hist[n].changed)
            /\ (/\ hist[n].dialect # "hcl"
                /\ ~Contains(InLines(hist[n])[i], Hash)
                /\ i > 1 => ~Contains(InLines(hist[n])[i - 1], Hash))
                   => i \notin Rewritten(hist[n])

\* in a YAML or dotenv file the line after #depup package=a was rewritten and
\* the line after // depup package=a, with the same version, was not
C15_Witness ==
    \E n \in Returned :
        /\ hist[n].dialect # "hcl"
        /\ \E i \in Rewritten(hist[n]) :
               AnnotatedBy(hist[n].dialect, InLines(hist[n]), i, Hash, packages)
                   /\ InLines(hist[n])[i - 1] = AnnotationText(Hash, << >>, a)
        /\ \E i \in DOMAIN InLines(hist[n]) \ Rewritten(hist[n]) :
               AnnotatedBy("hcl", InLines(hist[n]), i, Slashes, packages)

\* the calls of Updater.Update
Updates == {n \in DOMAIN hist : hist[n].via = "Update"}

\* C16: when a package of the list fails Validate, Update returns the
\* validation error and nothing else happens: no file updater is called, no
\* write is made and the file is as before, whatever the entrypoint, the
\* options and the other packages of the list.
C16_ValidationFirst ==
    \A n \in Updates :
        (\E k \in DOMAIN packages : ~Validate(packages[k]))
            => /\ hist[n].err = "invalid"
               /\ hist[n].dialect = "none"
               /\ hist[n].writes = 0
               /\ hist[n].after = hist[n].before

\* Update returned the validation error for a list of a valid and an invalid
\* package, on a file that the valid package alone would have changed
C16_Witness ==
    \E n \in Updates :
        /\ hist[n].err = "invalid"
        /\ \E j, k \in DOMAIN packages : Validate(packages[j]) /\ ~Validate(packages[k])
        /\ UpdateFile(Updater, hist[n].before, <<Pkg(a, V200)>>, FALSE, "ok").changed
        /\ disk = hist[n].before

\* the index after the digits of PATCH when s starts with MAJOR.MINOR.PATCH,
\* no component with a leading zero; 0 otherwise
CoreEnd(s) ==
    IF ~StrictCoreAt(s, 1) THEN 0
    ELSE LET p == StrictCompDotEnd(s, StrictCompDotEnd(s, 1)) IN
         IF At(s, p) = "0" /\ At(s, p + 1) \in Digit THEN 0
         ELSE RunEnd(s, p, Digit)

\* the whole of s is MAJOR.MINOR.PATCH, then nothing or a prerelease or build
\* suffix of letters, digits, dots and hyphens
WholeVersion(s) ==
    /\ CoreEnd(s) # 0
    /\ CoreEnd(s) <= Len(s) => s[CoreEnd(s)] \in {"-", "+"}
    /\ \A i \in DOMAIN s :
           i > CoreEnd(s) => s[i] \in Digit \cup Letter \cup {".", "-", "+"}

\* C17: Update goes past validation only if every package of the list has a
\* name of letters, digits and hyphens and a version that is, as a whole, a
\* semantic version without leading zeros.
C17_PackageInvariant ==
    \A n \in Updates :
        hist[n].err # "invalid"
            => \A k \in DOMAIN packages :
                   /\ packages[k].Name # << >>
                   /\ \A i \in DOMAIN packages[k].Name :
                          packages[k].Name[i] \in Digit \cup Letter \cup {"-"}
                   /\ WholeVersion(packages[k].Version)

\* C18: a call of UpdateFile on a readable file that attempts no write
\* returns no error; a file without annotation comes back with changed=false,
\* and a governed line without version token, or governed by a package that
\* is not in the requested list, is not rewritten.
C18_NoMatchIsNoError ==
    \A n \in Calls :
        /\ (hist[n].err # "read" /\ hist[n].writes = 0) => hist[n].err = "none"
        /\ hist[n].err = "none" =>
               /\ NoAnnotation(hist[n].before) => ~hist[n].changed
               /\ \A i \in DOMAIN InLines(hist[n]) :
                      LET g == GoverningName(hist[n].dialect, InLines(hist[n]), i) IN
                      (/\ g # << >>
                       /\ \/ ~VersionPatternFind(InLines(hist[n])[i]).found
                          \/ g \notin Listed(packages))
                          => i \notin Rewritten(hist[n])

\* C19: when the file cannot be read, UpdateFile returns an error, empty
\* content and changed=false, and makes no write: the file is as before.
\* Every error other than a write failure is returned with no write made.
C19_ReadFailureBeforeWrite ==
    \A n \in Calls :
        /\ hist[n].err = "read" =>
               /\ hist[n].content = << >>
               /\ ~hist[n].changed
        /\ hist[n].err \notin {"none", "write"} =>
               /\ hist[n].writes = 0
               /\ hist[n].after = hist[n].before

\* the read failed in a call that was no dry run, on a file that the call
\* would have rewritten
C19_Witness ==
    \E n \in Calls :
        /\ hist[n].err = "read"
        /\ ~hist[n].dryRun
        /\ hist[n].before # << >>
        /\ hist[n].after = hist[n].before
        /\ UpdateFile(hist[n].dialect, hist[n].before, packages, FALSE, "ok").writes = 1

\* the content a call was to write: what processLines makes of the file
Intended(h) == UpdateFile(h.dialect, h.before, packages, FALSE, "ok").content

\* C20: after a call that reached os.WriteFile, whether the write succeeded
\* or failed, the file holds either the whole original content or the whole
\* new content; a failed write is reported as an error.
C20_AtomicWriteBack ==
    \A n \in Calls :
        hist[n].writes = 1 =>
            /\ hist[n].after \in {hist[n].before, Intended(hist[n])}
            /\ hist[n].after # Intended(hist[n]) => hist[n].err = "write"

\* the updater a file of that name belongs to: by its extension, and for the
\* dotenv updater by the name .env or the glob .env.*; "none" for any other
DialectOfName(n) ==
    IF Ext(n) \in YamlExtensions THEN "yaml"
    ELSE IF Ext(n) \in HclExtensions THEN "hcl"
    ELSE IF \E pattern \in DotEnvExtensions : Match(pattern, n) THEN "dotenv"
    ELSE "none"

\* the file is the entrypoint of the call or lies where the call looks: in
\* the entrypoint directory, or below it when the call is recursive
InScope(h) ==
    \/ h.entry \in {"file", "dir"}
    \/ h.entry = "parent" /\ h.recursive

\* C21: with the default extensions, Update hands a file to the YAML, HCL or
\* dotenv updater exactly when its name is one of that updater: every such
\* file in the scope of the call is processed by that updater and the call
\* returns no "no updater found" error, and no other file is handed to it.
C21_ExtensionDispatch ==
    \A n \in Updates :
        hist[n].fileExtensions = AllExtensions =>
            /\ hist[n].dialect # "none" => hist[n].dialect = DialectOfName(name)
            /\ (DialectOfName(name) # "none" /\ InScope(hist[n]))
                   => /\ hist[n].dialect = DialectOfName(name)
                      /\ hist[n].err # "noupdater"

\* the file has a configured extension: its extension, or a glob that its
\* name matches, is one of the extensions of the Updater
Configured(h) ==
    \E pattern \in h.fileExtensions : pattern = Ext(name) \/ Match(pattern, name)

\* the file is one that the call has to process
Eligible(h) == h.entry # "missing" /\ InScope(h) /\ Configured(h)

\* C22: a call of Update with valid packages invokes a file updater, once, on
\* the file when it is eligible: the entrypoint itself, a file of the
\* entrypoint directory, or with recursive=true a file at any depth below it,
\* with a configured extension.  For any other file no updater is invoked,
\* and a file with an extension that is not supported is skipped without
\* error.
C22_FilesProcessed ==
    \A n \in Updates :
        hist[n].entry # "missing" =>
            /\ Eligible(hist[n]) => hist[n].dialect # "none"
            /\ ~Eligible(hist[n]) => (hist[n].dialect = "none" /\ hist[n].err = "skipped")

\* what invocation h returns, and leaves on disk, when it runs alone
Alone(h) == UpdateFile(h.dialect, h.before, packages, h.dryRun, "ok")

\* C23: whatever the interleaving of the steps of concurrent invocations of
\* UpdateFile on distinct files, each invocation returns the content, the
\* changed flag and the error it returns when run alone on its file, and its
\* file holds the content that run leaves.
C23_Independence ==
    \A n \in DOMAIN hist :
        /\ hist[n].content = Alone(hist[n]).content
        /\ hist[n].changed = Alone(hist[n]).changed
        /\ hist[n].err = Alone(hist[n]).err
        /\ disk[hist[n].proc] = Alone(hist[n]).after

\* two invocations on files of different dialects returned, each having
\* rewritten its file, the first of them while the other was between its
\* read and its write
C23_Witness ==
    /\ Len(hist) >= 2
    /\ \A n \in DOMAIN hist :
           /\ hist[n].changed
           /\ ~hist[n].dryRun
           /\ disk[hist[n].proc] = hist[n].content
           /\ disk[hist[n].proc] # hist[n].before
    /\ hist[1].inflight # {}
    /\ name[1] # name[2]

\* the package name of an annotation on the line, << >> when it holds none
AnnotationOn(d, line) ==
    IF d = "hcl" THEN HclPackageName(line) ELSE commentPattern(line, Hash)

\* line i carries an inline annotation behind a version token and the line
\* before it holds an annotation too
DoublyAnnotated(d, lines, i) ==
    /\ i > 1
    /\ \E start \in CommentStarts(d) : InlineAnnotated(lines[i], start)
    /\ AnnotationOn(d, lines[i - 1]) # << >>

\* C24: a line with an inline annotation that follows a line with an
\* annotation comes out as it does when nothing precedes it: the package
\* named on the line before never determines its output.
C24_InlinePrecedence ==
    \A n \in Returned :
        \A i \in DOMAIN InLines(hist[n]) :
            DoublyAnnotated(hist[n].dialect, InLines(hist[n]), i)
                => OutLines(hist[n])[i]
                       = processLine(hist[n].dialect, <<InLines(hist[n])[i]>>, 1, packages).line

\* C25: an annotation that trails a value on its line governs that line
\* only: the line after it is rewritten only on account of an inline
\* annotation of its own.
C25_AnnotationScope ==
    \A n \in Returned :
        \A i \in DOMAIN InLines(hist[n]) :
            (/\ i + 1 \in DOMAIN InLines(hist[n])
             /\ \E start \in CommentStarts(hist[n].dialect) :
                    InlineAnnotated(InLines(hist[n])[i], start)
             /\ i + 1 \in Rewritten(hist[n]))
                => \E start \in CommentStarts(hist[n].dialect) :
                       InlineAnnotated(InLines(hist[n])[i + 1], start)

\* the index of the first character of the line that is no whitespace
FirstInk(line) == RunEnd(line, 1, Space)

\* the line is a comment as a whole: a comment start of the dialect is the
\* first thing on it
CommentOnly(d, line) == \E start \in CommentStarts(d) : HasAt(line, FirstInk(line), start)

\* C26: a line that begins with a comment start of its dialect is not an
\* inline value line: when no annotation of the line before governs it, it
\* is not rewritten, whatever annotation it holds itself.
C26_CommentOnlyLines ==
    \A n \in Returned :
        \A i \in DOMAIN InLines(hist[n]) :
            (/\ CommentOnly(hist[n].dialect, InLines(hist[n])[i])
             /\ i > 1 => AnnotationOn(hist[n].dialect, InLines(hist[n])[i - 1]) = << >>)
                => i \notin Rewritten(hist[n])

\* line i and the line before it, if there is one
Window(lines, i) == IF i > 1 THEN <<lines[i - 1], lines[i]>> ELSE <<lines[i]>>

\* C27: output line i depends on the package list and on the input lines i-1
\* and i only: two lines with the same line before them, in the same call or
\* in calls on different contents, come out the same, and a line without
\* annotation whose preceding line holds none is not rewritten, whatever
\* stands further up.
C27_Locality ==
    \A m, n \in Returned :
        \A i \in DOMAIN InLines(hist[m]) :
            /\ \A j \in DOMAIN InLines(hist[n]) :
                   Window(InLines(hist[m]), i) = Window(InLines(hist[n]), j)
                       => OutLines(hist[m])[i] = OutLines(hist[n])[j]
            /\ (/\ AnnotationOn(hist[m].dialect, InLines(hist[m])[i]) = << >>
                /\ i > 1 => AnnotationOn(hist[m].dialect, InLines(hist[m])[i - 1]) = << >>)
                   => i \notin Rewritten(hist[m])

\* a value line, two lines below the annotation of a listed package with
\* another version and one line below a comment or a blank line, came back
\* as it was
C27_Witness ==
    \E n \in Returned :
        \E i \in DOMAIN InLines(hist[n]) :
            /\ i > 2
            /\ AnnotationOn(hist[n].dialect, InLines(hist[n])[i - 2]) \in Listed(packages)
            /\ AnnotationOn(hist[n].dialect, InLines(hist[n])[i - 1]) = << >>
            /\ AnnotationOn(hist[n].dialect, InLines(hist[n])[i]) = << >>
            /\ VersionPatternFind(InLines(hist[n])[i]).found
            /\ VersionPatternFind(InLines(hist[n])[i]).m2
                   # Requested(packages, AnnotationOn(hist[n].dialect, InLines(hist[n])[i - 2]))
            /\ i \notin Rewritten(hist[n])

\* C28: a rewrite leaves the trailing comment of the line as it was, and in
\* a dotenv file the key and the = as well: a version inside the comment or
\* inside the key is never rewritten.
C28_SearchedText ==
    \A n \in Returned :
        \A i \in Rewritten(hist[n]) :
            LET d == hist[n].dialect
                line == InLines(hist[n])[i]
                out == OutLines(hist[n])[i]
                c == CommentIndex(d, line)
                k == Len(out) - (Len(line) - c)
            IN  /\ k >= 1
                /\ From(out, k) = From(line, c)
                /\ SubSeq(out, 1, ValueFrom(d, line) - 1) = SubSeq(line, 1, ValueFrom(d, line) - 1)

\* C29: UpdateFile returns changed=true exactly when the content it returns
\* differs from the content of the file.
C29_ChangedFlag ==
    \A n \in Returned :
        hist[n].changed <=> hist[n].content # hist[n].before

====
